---- MODULE Spec2Model ----
(***************************************************************************)
(* A model of the email-reminder repository: the Jira tool server          *)
(* (src/unnamed/part_000), the REST batch reporter (src/unnamed/part_001   *)
(* with src/src/jiraService.ts) and the scraping batch reporter            *)
(* (src/unnamed/part_002).                                                 *)
(*                                                                         *)
(* Each program is one process; a specification models one process.        *)
(* JavaScript strings read from the environment are sequences of           *)
(* characters, the value undefined is the one-element sequence Undefined.  *)
(* Texts produced by template literals are sequences of fragments.         *)
(***************************************************************************)
EXTENDS Integers, Sequences, FiniteSets, TLC

VARIABLES
    pc,          \* position of the process in its top-level control flow
    exitStatus,  \* <<>> while the process runs, <<code>> once it has exited
    env,         \* process.env (tool server: after its dotenv loads)
    dotEnvFile,  \* batch reporter: what the .env file in the working directory defines
    jiraConfig,  \* tool server: the jiraConfig record (part_000:34-41)
    authHeader,  \* REST reporter: config.AUTH_HEADER (jiraService.ts:59-61)
    http,        \* tracker requests issued so far, in order, with their outcome
    calls,       \* tool server: number of tool invocations handled so far
    response,    \* tool server: outcome of the latest tool invocation
    tracker,     \* tool server: what the tracker call of the latest tool invocation did
    svc,         \* REST reporter: the JiraService methods called, with their results
    issues,      \* batch reporter: the local variable issues of the run
    runError,    \* batch reporter: <<>> or <<e>>, the error getJiraIssues rejected with
    mail,        \* messages submitted to transporter.sendMail, with their outcome
    log,         \* what the process wrote to its console (a set of entries)
    browser,     \* scraping reporter: how often the browser was launched and closed
    attempts,    \* scraping reporter: the local variable attempts of the polling loop
    boardReady,  \* scraping reporter: the local variable boardReady of the polling loop
    currentUrl,  \* scraping reporter: what page.url() gave the latest check
    elapsed      \* scraping reporter: seconds spent in setTimeout waits so far

vars == <<pc, exitStatus, env, dotEnvFile, jiraConfig, authHeader, http, calls,
          response, tracker, svc, issues, runError, mail, log,
          browser, attempts, boardReady, currentUrl, elapsed>>

----------------------------------------------------------------------------
(* Bounds of the model *)

\* tool invocations handled by one tool-server process
MaxCalls == 2
\* comments in one tracker response
MaxComments == 2
\* issues in one tracker response
MaxIssues == 2

----------------------------------------------------------------------------
(* JavaScript values *)

Undefined == <<"undefined">>

\* !v for a string-or-undefined value
Falsy(v) == v = Undefined \/ v = <<>>

\* v || d
OrElse(v, d) == IF Falsy(v) THEN d ELSE v

Whitespace == {" "}

RECURSIVE TrimStart(_)
TrimStart(s) ==
    IF s # <<>> /\ Head(s) \in Whitespace THEN TrimStart(Tail(s)) ELSE s

RECURSIVE TrimEnd(_)
TrimEnd(s) ==
    IF s # <<>> /\ s[Len(s)] \in Whitespace
    THEN TrimEnd(SubSeq(s, 1, Len(s) - 1))
    ELSE s

\* String.prototype.trim
Trim(s) == TrimEnd(TrimStart(s))

\* Array.prototype.join on an array of strings (sequences), separator sep
RECURSIVE Join(_, _)
Join(parts, sep) ==
    IF parts = <<>> THEN <<>>
    ELSE IF Len(parts) = 1 THEN parts[1]
    ELSE parts[1] \o sep \o Join(Tail(parts), sep)

\* values thrown by a collaborator: an Error with a message, a value that is
\* not an Error and has no message property, and null/undefined
ThrownValues ==
    { [t |-> "Error", message |-> "Request failed with status code 401"],
      [t |-> "string", value |-> "socket hang up"],
      [t |-> "undefined"] }

Null == <<"null">>

\* error.message as the template literal `${(error as Error).message}` renders
\* it; reading a property of null or undefined throws a TypeError instead
HasProperties(e) == e.t # "undefined" /\ e.t # "null"

MessageOf(e) == IF e.t \in {"Error", "TypeError"} THEN <<e.message>> ELSE <<"undefined">>

TypeErrorOf(what) == [t |-> "TypeError", message |-> what]

----------------------------------------------------------------------------
(* Tool server, src/unnamed/part_000 *)

ServerEnvKeys == {"JIRA_HOST", "JIRA_USERNAME", "JIRA_PASSWORD"}

\* values a variable of the environment can have: unset, empty, set
EnvValues == {Undefined, <<>>, <<"v">>}

MakeJiraConfig(e) ==
    [ host     |-> OrElse(e["JIRA_HOST"], <<"jira.corp.adobe.com">>),
      username |-> OrElse(e["JIRA_USERNAME"], <<>>),
      password |-> OrElse(e["JIRA_PASSWORD"], <<>>) ]

\* validateJiraConfig without its check of the password
validateJiraConfigNoPassword ==
    IF Falsy(jiraConfig.host) THEN <<"JIRA_HOST environment variable is not set">>
    ELSE IF Falsy(jiraConfig.username) THEN <<"JIRA_USERNAME environment variable is not set">>
    ELSE Null

\* a validation that also fails once an authentication error has been logged
validateJiraConfigOrFailedProbe ==
    IF \E line \in log : Len(line) >= 1 /\ line[1] = "Jira authentication error: "
    THEN <<"Jira authentication failed">>
    ELSE IF Falsy(jiraConfig.host) THEN <<"JIRA_HOST environment variable is not set">>
    ELSE IF Falsy(jiraConfig.username) THEN <<"JIRA_USERNAME environment variable is not set">>
    ELSE IF Falsy(jiraConfig.password) THEN <<"JIRA_PASSWORD environment variable is not set">>
    ELSE Null

\* a validation whose outcome changes once a tool has been invoked
validateJiraConfigUntilFirstCall ==
    IF calls > 0 \/ Falsy(jiraConfig.host) THEN <<"JIRA_HOST environment variable is not set">>
    ELSE IF Falsy(jiraConfig.username) THEN <<"JIRA_USERNAME environment variable is not set">>
    ELSE IF Falsy(jiraConfig.password) THEN <<"JIRA_PASSWORD environment variable is not set">>
    ELSE Null

validateJiraConfig ==
    IF Falsy(jiraConfig.host) THEN <<"JIRA_HOST environment variable is not set">>
    ELSE IF Falsy(jiraConfig.username) THEN <<"JIRA_USERNAME environment variable is not set">>
    ELSE IF Falsy(jiraConfig.password) THEN <<"JIRA_PASSWORD environment variable is not set">>
    ELSE Null

\* what the tool protocol hands to a handler as issueKey: any string
IssueKeys == { <<"A", "B", "-", "1">>, <<"a", "b">> }

TextResult(text) == [kind |-> "returned", content |-> << [type |-> "text", text |-> text] >>]

Rejected(e) == [kind |-> "rejected", error |-> e]

ConfigErrorResult(configError) ==
    TextResult(<<"Configuration error: ">> \o configError \o <<"\n\n">>)

\* the fields of an issue as jira.findIssue returns them; statusName and
\* issuetypeName stand for fields.status?.name and fields.issuetype?.name
IssueFields ==
    { [description |-> d, summary |-> s, statusName |-> st, issuetypeName |-> ty] :
        d \in {Undefined, <<"Steps to reproduce">>},
        s \in {Undefined, <<"Fix bug">>},
        st \in {Undefined, <<"Open">>},
        ty \in {Undefined, <<"Bug">>} }

\* what jira.findIssue resolves with: nothing, an object without fields, an issue
IssueValues ==
    { [t |-> "null"], [t |-> "object"] } \cup { [t |-> "issue", fields |-> f] : f \in IssueFields }

Outcomes(values) ==
    { [kind |-> "value", value |-> v] : v \in values } \cup
    { [kind |-> "throw", error |-> e] : e \in ThrownValues }

\* the catch block of a handler: builds the failure text from error.message
CatchFailed(prefix, issueKey, error) ==
    IF HasProperties(error)
    THEN TextResult(prefix \o issueKey \o <<": ">> \o MessageOf(error))
    ELSE Rejected(TypeErrorOf("Cannot read properties of undefined (reading 'message')"))

\* the try block of the read-description handler, given a resolved value
DescriptionOf(issueKey, issue) ==
    IF issue.t = "null" THEN TextResult(<<"Issue ">> \o issueKey \o <<" not found">>)
    ELSE IF issue.t # "issue"
    THEN [kind |-> "throw",
          error |-> TypeErrorOf("Cannot read properties of undefined (reading 'description')")]
    ELSE LET description == OrElse(issue.fields.description, <<"No description available">>)
             summary     == OrElse(issue.fields.summary, <<"No summary available">>)
             status      == OrElse(issue.fields.statusName, <<"Unknown status">>)
             issueType   == OrElse(issue.fields.issuetypeName, <<"Unknown type">>)
         IN  TextResult(Join(<< <<"Issue: ">> \o issueKey,
                                <<"Summary: ">> \o summary,
                                <<"Type: ">> \o issueType,
                                <<"Status: ">> \o status,
                                <<"\nDescription:\n">> \o description >>, <<"\n">>))

\* the read-description handler after the configuration check
DescriptionHandler(issueKey, outcome) ==
    LET tried == IF outcome.kind = "throw" THEN outcome
                 ELSE DescriptionOf(issueKey, outcome.value)
    IN  IF tried.kind = "throw"
        THEN CatchFailed(<<"Failed to retrieve issue ">>, issueKey, tried.error)
        ELSE tried

\* a comment as jira.getComments returns it (authorName stands for
\* author?.displayName), or a null entry of the list
CommentValues ==
    { [t |-> "comment", authorName |-> <<"Alice">>, created |-> <<"2024-01-02T03:04:05.000+0000">>,
       body |-> <<"Looks good">>],
      [t |-> "comment", authorName |-> <<"Bob">>, created |-> <<"2024-02-03T04:05:06.000+0000">>,
       body |-> <<"Needs work">>],
      [t |-> "comment", authorName |-> Undefined, created |-> Undefined, body |-> Undefined],
      [t |-> "null"] }

SeqsUpTo(S, n) == UNION { [1..k -> S] : k \in 0..n }

\* what jira.getComments resolves with: nothing, an object without a comments
\* list, a container with a list of comments
CommentsValues ==
    { [t |-> "null"], [t |-> "object"] } \cup
    { [t |-> "container", comments |-> l] : l \in SeqsUpTo(CommentValues, MaxComments) }

\* new Date(created).toLocaleString(): a rendering in the host's locale
ToLocaleString(created) ==
    IF created = Undefined THEN <<"Invalid Date">>
    ELSE <<"toLocaleString(">> \o created \o <<")">>

\* a comment block without the delimiter line
FormatCommentNoDelimiter(comment) ==
    <<"Author: ">> \o OrElse(comment.authorName, <<"Unknown">>) \o <<"\n", "Date: ">> \o
    ToLocaleString(comment.created) \o <<"\n", "Comment:\n">> \o
    OrElse(comment.body, <<"No content">>)

FormatComment(comment) ==
    LET author  == OrElse(comment.authorName, <<"Unknown">>)
        created == ToLocaleString(comment.created)
        body    == OrElse(comment.body, <<"No content">>)
    IN  Join(<< <<"Author: ">> \o author,
                <<"Date: ">> \o created,
                <<"Comment:\n">> \o body,
                <<"---">> >>, <<"\n">>)

\* NoComments without the test of the list's length
NoCommentsMissingOnly(comments) == comments.t = "null" \/ comments.t = "object"

\* !comments || !comments.comments || comments.comments.length === 0
NoComments(comments) ==
    comments.t = "null" \/ comments.t = "object" \/ Len(comments.comments) = 0

\* the try block of the read-comments handler, given a resolved value
CommentsOf(issueKey, comments) ==
    IF NoComments(comments)
    THEN TextResult(<<"No comments found for issue ">> \o issueKey)
    ELSE IF \E i \in 1..Len(comments.comments) : comments.comments[i].t = "null"
    THEN [kind |-> "throw",
          error |-> TypeErrorOf("Cannot read properties of null (reading 'author')")]
    ELSE LET formattedComments ==
                 [i \in 1..Len(comments.comments) |-> FormatComment(comments.comments[i])]
         IN  TextResult(<<"Comments for ">> \o issueKey \o <<":\n\n">>
                        \o Join(formattedComments, <<"\n">>))

\* the read-comments handler after the configuration check
CommentsHandler(issueKey, outcome) ==
    LET tried == IF outcome.kind = "throw" THEN outcome
                 ELSE CommentsOf(issueKey, outcome.value)
    IN  IF tried.kind = "throw"
        THEN CatchFailed(<<"Failed to retrieve comments for issue ">>, issueKey, tried.error)
        ELSE tried

\* the value of response before any tool invocation
NoResponse == [kind |-> "none"]

\* the value of tracker while no tool invocation has called the tracker
NoOutcome == [kind |-> "none"]

\* no browser has been launched
NoBrowser == [launched |-> 0, closed |-> 0]

\* the variables of the scraping reporter before fetchJiraIssuesFromScrumBoard
NoScraping ==
    /\ browser = NoBrowser
    /\ attempts = 0
    /\ boardReady = FALSE
    /\ currentUrl = Undefined
    /\ elapsed = 0

NoConfig == [host |-> <<>>, username |-> <<>>, password |-> <<>>]

\* the value a variable of the tool server has when it is set; the password
\* differs from every other text of the model
SetValue(k) == IF k = "JIRA_PASSWORD" THEN <<"s3cret">> ELSE <<"v">>

InitServer ==
    /\ env \in [ServerEnvKeys -> EnvValues \cup {SetValue(k) : k \in ServerEnvKeys}]
    /\ \A k \in ServerEnvKeys : env[k] \in {Undefined, <<>>, SetValue(k)}
    /\ jiraConfig = MakeJiraConfig(env)
    /\ pc = "main"
    /\ exitStatus = <<>>
    /\ http = <<>>
    /\ calls = 0
    /\ response = NoResponse
    /\ tracker = NoOutcome
    /\ NoScraping
    /\ log = {}
    /\ dotEnvFile = [k \in {} |-> Undefined]
    /\ authHeader = Undefined
    /\ svc = <<>>
    /\ issues = <<>>
    /\ runError = <<>>
    /\ mail = <<>>

ServerIdle ==
    UNCHANGED <<env, dotEnvFile, jiraConfig, authHeader, svc, issues, runError, mail,
                browser, attempts, boardReady, currentUrl, elapsed>>

\* process.exit(code)
Exit(code) == pc' = "exited" /\ exitStatus' = <<code>>

\* main() with an invalid configuration: limited mode, no probe
MainLimitedMode ==
    /\ pc = "main"
    /\ validateJiraConfig # Null
    /\ log' = log \cup { <<"Jira configuration error: ">> \o validateJiraConfig }
    /\ pc' = "connect"
    /\ UNCHANGED <<exitStatus, http, calls, response, tracker>>
    /\ ServerIdle

\* testJiraAuthentication
testJiraAuthentication(outcome) ==
    IF outcome.kind = "throw"
    THEN IF HasProperties(outcome.error)
         THEN [kind |-> "value", value |-> <<"Authentication failed: ">> \o MessageOf(outcome.error)]
         ELSE [kind |-> "throw",
               error |-> TypeErrorOf("Cannot read properties of undefined (reading 'message')")]
    ELSE [kind |-> "value", value |-> Null]

\* main() with a valid configuration: one authentication probe
MainAuthProbe ==
    /\ pc = "main"
    /\ validateJiraConfig = Null
    /\ \E outcome \in Outcomes({ [t |-> "user"] }) :
         LET authError == testJiraAuthentication(outcome) IN
         /\ http' = Append(http, [op |-> "getCurrentUser", arg |-> <<>>])
         /\ IF authError.kind = "throw"
            THEN /\ log' = log \cup { <<"jiraConfig">> \o jiraConfig.username \o jiraConfig.password,
                                      <<"Error starting Jira MCP server:">> \o MessageOf(authError.error) }
                 /\ Exit(1)
            ELSE /\ log' = log \cup { <<"jiraConfig">> \o jiraConfig.username \o jiraConfig.password }
                         \cup (IF authError.value # Null
                               THEN { <<"Jira authentication error: ">> \o authError.value }
                               ELSE { <<"Jira authentication successful!">> })
                 /\ pc' = "connect"
                 /\ UNCHANGED exitStatus
    /\ UNCHANGED <<calls, response, tracker>>
    /\ ServerIdle

\* server.connect(transport) in main(): it resolves, or it throws and main exits 1
MainConnect ==
    /\ pc = "connect"
    /\ \E ok \in BOOLEAN :
         IF ok
         THEN /\ pc' = "running"
              /\ log' = log \cup { <<"Jira MCP Server running on stdio">> }
              /\ UNCHANGED exitStatus
         ELSE /\ log' = log \cup { <<"Error starting Jira MCP server:">> }
              /\ Exit(1)
    /\ UNCHANGED <<http, calls, response, tracker>>
    /\ ServerIdle

\* the handler registered for read-description
ReadDescription ==
    /\ pc = "running"
    /\ calls < MaxCalls
    /\ \E issueKey \in IssueKeys, outcome \in Outcomes(IssueValues) :
         LET configError == validateJiraConfig IN
         IF configError # Null
         THEN /\ response' = ConfigErrorResult(configError)
              /\ tracker' = NoOutcome
              /\ UNCHANGED <<http, log>>
         ELSE /\ http' = Append(http, [op |-> "findIssue", arg |-> issueKey])
              /\ response' = DescriptionHandler(issueKey, outcome)
              /\ tracker' = outcome
              /\ log' = IF outcome.kind = "throw" \/ outcome.value.t = "object"
                        THEN log \cup { <<"Error fetching Jira issue:">> }
                        ELSE log
    /\ calls' = calls + 1
    /\ UNCHANGED <<pc, exitStatus>>
    /\ ServerIdle

\* the handler registered for read-comments
ReadComments ==
    /\ pc = "running"
    /\ calls < MaxCalls
    /\ \E issueKey \in IssueKeys, outcome \in Outcomes(CommentsValues) :
         LET configError == validateJiraConfig IN
         IF configError # Null
         THEN /\ response' = ConfigErrorResult(configError)
              /\ tracker' = NoOutcome
              /\ UNCHANGED <<http, log>>
         ELSE /\ http' = Append(http, [op |-> "getComments", arg |-> issueKey])
              /\ response' = CommentsHandler(issueKey, outcome)
              /\ tracker' = outcome
              /\ log' = IF outcome.kind = "throw" \/ CommentsOf(issueKey, outcome.value).kind = "throw"
                        THEN log \cup { <<"Error fetching Jira comments:">> }
                        ELSE log
    /\ calls' = calls + 1
    /\ UNCHANGED <<pc, exitStatus>>
    /\ ServerIdle

\* a signal handler that exits with status 1
SignalExitsOne ==
    /\ pc # "exited"
    /\ \E sig \in {"SIGINT", "SIGTERM"} :
         log' = log \cup { <<"Received ", sig, " signal, shutting down...">> }
    /\ Exit(1)
    /\ UNCHANGED <<http, calls, response, tracker>>
    /\ ServerIdle

\* the SIGINT and SIGTERM handlers
Signal ==
    /\ pc # "exited"
    /\ \E sig \in {"SIGINT", "SIGTERM"} :
         log' = log \cup { <<"Received ", sig, " signal, shutting down...">> }
    /\ Exit(0)
    /\ UNCHANGED <<http, calls, response, tracker>>
    /\ ServerIdle

\* the uncaughtException handler
UncaughtException ==
    /\ pc # "exited"
    /\ log' = log \cup { <<"Uncaught exception:">> }
    /\ Exit(1)
    /\ UNCHANGED <<http, calls, response, tracker>>
    /\ ServerIdle

NextServer ==
    \/ MainLimitedMode
    \/ MainAuthProbe
    \/ MainConnect
    \/ ReadDescription
    \/ ReadComments
    \/ Signal
    \/ UncaughtException

SpecServer == InitServer /\ [][NextServer]_vars

----------------------------------------------------------------------------
(* Issue source, src/src/jiraService.ts *)

\* dotenv.config(): every key the file defines is copied into the environment,
\* over an existing value only with override
DotenvConfig(e, file, override) ==
    [k \in DOMAIN e |->
        IF k \in DOMAIN file /\ (override \/ e[k] = Undefined) THEN file[k] ELSE e[k]]

\* Buffer.from(token, 'base64').toString() for the tokens of the model: a token
\* that is the encoding of "u:t" decodes to it, the others decode to no text
PreEncodedToken == <<"dTp0">>

Base64Decode(token) == IF token = PreEncodedToken THEN <<"u", ":", "t">> ELSE <<>>

Base64Encode(text) == <<"base64(">> \o text \o <<")">>

Includes(text, ch) == \E i \in 1..Len(text) : text[i] = ch

constructAuthHeader(email, token) ==
    IF Includes(Base64Decode(token), ":")
    THEN <<"Basic ">> \o token
    ELSE <<"Basic ">> \o Base64Encode(email \o <<":">> \o token)

\* config.AUTH_HEADER, computed when the module is imported
AuthHeaderOf(e) ==
    IF ~Falsy(e["JIRA_USERNAME"]) /\ ~Falsy(e["JIRA_PASSWORD"])
    THEN constructAuthHeader(e["JIRA_USERNAME"], e["JIRA_PASSWORD"])
    ELSE Undefined

\* the error a failed tracker request rejects with
AxiosErrors == { [t |-> "AxiosError", message |-> "Request failed with status code 401"] }

\* raw issues of the tracker (JiraApiIssue); assignee and priority may be null
RawIssues ==
    { [key |-> <<"P-1">>, summary |-> <<"Fix bug">>, statusName |-> <<"Open">>,
       assignee |-> [t |-> "user", displayName |-> <<"Alice">>],
       issuetypeName |-> <<"Bug">>, priority |-> [t |-> "priority", name |-> <<"High">>]],
      [key |-> <<"P-2">>, summary |-> <<"Add test">>, statusName |-> <<"2">>,
       assignee |-> [t |-> "null"],
       issuetypeName |-> <<"Task">>, priority |-> [t |-> "null"]],
      [key |-> <<"P-3">>, summary |-> <<"Ship it">>, statusName |-> <<"constructor">>,
       assignee |-> [t |-> "user", displayName |-> <<>>],
       issuetypeName |-> <<"Story">>, priority |-> [t |-> "priority", name |-> <<>>]] }

\* issue.fields.assignee?.displayName and issue.fields.priority?.name
OptionalName(field) ==
    IF field.t = "null" THEN Undefined
    ELSE IF field.t = "user" THEN field.displayName
    ELSE field.name

\* a transform that defaults the assignee and the priority only when they are null
TransformIssueNullOnly(issue) ==
    [ key       |-> issue.key,
      summary   |-> issue.summary,
      status    |-> issue.statusName,
      assignee  |-> IF issue.assignee.t = "null" THEN <<"Unassigned">>
                    ELSE issue.assignee.displayName,
      issueType |-> issue.issuetypeName,
      priority  |-> IF issue.priority.t = "null" THEN <<"Medium">>
                    ELSE issue.priority.name ]

\* the transform of one raw issue to a JiraIssue
TransformIssue(issue) ==
    [ key       |-> issue.key,
      summary   |-> issue.summary,
      status    |-> issue.statusName,
      assignee  |-> OrElse(OptionalName(issue.assignee), <<"Unassigned">>),
      issueType |-> issue.issuetypeName,
      priority  |-> OrElse(OptionalName(issue.priority), <<"Medium">>) ]

\* issues.map(issue => ({...}))
TransformIssues(list) == [i \in 1..Len(list) |-> TransformIssue(list[i])]

\* the data of an issue-list response: no issues member, or a list of raw issues
IssueListData ==
    { [t |-> "noissues"] } \cup
    { [t |-> "issues", issues |-> l] : l \in SeqsUpTo(RawIssues, MaxIssues) }

\* response.data.issues || []
IssuesOrEmpty(data) == IF data.t = "noissues" THEN <<>> ELSE data.issues

\* the active sprints of a board as the tracker reports them
Sprint(id) == [id |-> <<id>>, name |-> <<"Sprint ", id>>]

\* the data of a sprint-list response: no values member, or a list of sprints
SprintListData ==
    { [t |-> "novalues"],
      [t |-> "sprints", values |-> <<>>],
      [t |-> "sprints", values |-> << Sprint("11") >>],
      [t |-> "sprints", values |-> << Sprint("12"), Sprint("11") >>] }

\* a tracker request either resolves with data or rejects with an error
HttpOutcomes(datas) ==
    { [kind |-> "value", value |-> d] : d \in datas } \cup
    { [kind |-> "throw", error |-> e] : e \in AxiosErrors }

\* a request of one of the two axios instances; both carry config.AUTH_HEADER
Request(api, path, outcome) ==
    [api |-> api, path |-> path, authorization |-> authHeader, outcome |-> outcome]

Ok(value) == [kind |-> "ok", value |-> value]

Thrown(error) == [kind |-> "throw", error |-> error]

\* ActiveSprint taking the last active sprint
ActiveSprintLast(activeSprints) == activeSprints[Len(activeSprints)]

\* the sprint getActiveSprintIssues reads the issues of
ActiveSprint(activeSprints) == activeSprints[1]

\* getActiveSprintIssues: the requests it issues and what it returns or throws,
\* given the outcomes the tracker has for the sprint list and for the issue list
getActiveSprintIssues(rapidViewId, sprintsOutcome, issuesOutcome) ==
    LET sprintsRequest == Request("agile", <<"/board/">> \o rapidViewId \o <<"/sprint">>,
                                  sprintsOutcome)
    IN  IF sprintsOutcome.kind = "throw"
        THEN [requests |-> <<sprintsRequest>>, result |-> Thrown(sprintsOutcome.error)]
        ELSE IF sprintsOutcome.value.t = "novalues" \/ Len(sprintsOutcome.value.values) = 0
        THEN [requests |-> <<sprintsRequest>>, result |-> Ok(<<>>)]
        ELSE LET activeSprintId == ActiveSprint(sprintsOutcome.value.values).id
                 issuesRequest  == Request("agile", <<"/sprint/">> \o activeSprintId \o <<"/issue">>,
                                           issuesOutcome)
             IN  IF issuesOutcome.kind = "throw"
                 THEN [requests |-> <<sprintsRequest, issuesRequest>>,
                       result |-> Thrown(issuesOutcome.error)]
                 ELSE [requests |-> <<sprintsRequest, issuesRequest>>,
                       result |-> Ok(TransformIssues(IssuesOrEmpty(issuesOutcome.value)))]

\* getBoardIssues
getBoardIssues(rapidViewId, outcome) ==
    LET request == Request("agile", <<"/board/">> \o rapidViewId \o <<"/issue">>, outcome)
    IN  IF outcome.kind = "throw"
        THEN [requests |-> <<request>>, result |-> Thrown(outcome.error)]
        ELSE [requests |-> <<request>>,
              result |-> Ok(TransformIssues(IssuesOrEmpty(outcome.value)))]

\* a testConnection that reports success whatever the request did
testConnectionAlwaysTrue(outcome) ==
    [requests |-> << Request("api", <<"/myself">>, outcome) >>, result |-> Ok(TRUE)]

\* testConnection: true when GET /myself resolves, false when it rejects
testConnection(outcome) ==
    [requests |-> << Request("api", <<"/myself">>, outcome) >>,
     result |-> Ok(outcome.kind # "throw")]

\* getBoardInfo with a catch block that does not throw the error again
getBoardInfoSwallows(rapidViewId, outcome) ==
    [requests |-> << Request("agile", <<"/board/">> \o rapidViewId, outcome) >>,
     result |-> Ok([name |-> <<>>])]

\* getBoardInfo
getBoardInfo(rapidViewId, outcome) ==
    LET request == Request("agile", <<"/board/">> \o rapidViewId, outcome)
    IN  IF outcome.kind = "throw"
        THEN [requests |-> <<request>>, result |-> Thrown(outcome.error)]
        ELSE [requests |-> <<request>>, result |-> Ok(outcome.value)]

----------------------------------------------------------------------------
(* REST batch reporter, src/unnamed/part_001 *)

requiredEnvVars ==
    << "SMTP_SERVER", "SMTP_PORT", "SENDER_EMAIL", "SENDER_NAME",
       "smtp_username", "EMAIL_PASSWORD",
       "JIRA_USERNAME", "JIRA_PASSWORD", "JIRA_RAPID_VIEW" >>

optionalEmailVars == << "Doc_Email1", "Doc_Email2", "Doc_Email3" >>

Range(f) == { f[i] : i \in DOMAIN f }

BatchEnvKeys == Range(requiredEnvVars) \cup Range(optionalEmailVars)

\* requiredEnvVars.filter(varName => !process.env[varName])
RECURSIVE FilterMissing(_, _)
FilterMissing(names, e) ==
    IF names = <<>> THEN <<>>
    ELSE IF Falsy(e[Head(names)]) THEN <<Head(names)>> \o FilterMissing(Tail(names), e)
    ELSE FilterMissing(Tail(names), e)

\* missingVars stopping at the first missing variable
missingVarsFirstOnly(e) ==
    IF FilterMissing(requiredEnvVars, e) = <<>> THEN <<>>
    ELSE << Head(FilterMissing(requiredEnvVars, e)) >>

missingVars(e) == FilterMissing(requiredEnvVars, e)

Digits == {"0", "1", "2", "3", "4", "5", "6", "7", "8", "9"}

DigitValue(d) ==
    CASE d = "0" -> 0 [] d = "1" -> 1 [] d = "2" -> 2 [] d = "3" -> 3 [] d = "4" -> 4
      [] d = "5" -> 5 [] d = "6" -> 6 [] d = "7" -> 7 [] d = "8" -> 8 [] d = "9" -> 9

\* a property key that is a canonical array index ("0", "7", "12", not "07")
IsIndexKey(key) ==
    /\ key # <<>>
    /\ \A i \in 1..Len(key) : key[i] \in Digits
    /\ (Len(key) > 1 => key[1] # "0")

RECURSIVE IndexValue(_)
IndexValue(key) ==
    IF key = <<>> THEN 0
    ELSE 10 * IndexValue(SubSeq(key, 1, Len(key) - 1)) + DigitValue(key[Len(key)])

\* the keys among keys that are array indices, in ascending numeric order
RECURSIVE SortedIndexKeys(_)
SortedIndexKeys(keys) ==
    LET idx == { i \in 1..Len(keys) : IsIndexKey(keys[i]) }
    IN  IF idx = {} THEN <<>>
        ELSE LET m == CHOOSE i \in idx :
                          \A j \in idx : IndexValue(keys[i]) <= IndexValue(keys[j])
             IN  <<keys[m]>> \o
                 SortedIndexKeys([i \in 1..(Len(keys) - 1) |->
                                      IF i < m THEN keys[i] ELSE keys[i + 1]])

RECURSIVE OtherKeys(_)
OtherKeys(keys) ==
    IF keys = <<>> THEN <<>>
    ELSE IF IsIndexKey(Head(keys)) THEN OtherKeys(Tail(keys))
    ELSE <<Head(keys)>> \o OtherKeys(Tail(keys))

\* the key order of Object.entries: array indices ascending, then the other
\* keys in insertion order
OwnKeyOrder(keys) == SortedIndexKeys(keys) \o OtherKeys(keys)

\* the properties the object literal {} inherits from Object.prototype
ObjectPrototypeKeys ==
    { <<"constructor">>, <<"hasOwnProperty">>, <<"isPrototypeOf">>,
      <<"propertyIsEnumerable">>, <<"toLocaleString">>, <<"toString">>, <<"valueOf">>,
      <<"__defineGetter__">>, <<"__defineSetter__">>, <<"__lookupGetter__">>,
      <<"__lookupSetter__">>, <<"__proto__">> }

\* a value held in statusCount: a number, or the text that + makes of a non-number
NumberValue(n) == [t |-> "number", n |-> n, s |-> <<>>]

StringValue(s) == [t |-> "string", n |-> 0, s |-> s]

\* the text of an inherited property when + concatenates it
InheritedText(key) ==
    IF key = <<"__proto__">> THEN <<"[object Object]">>
    ELSE <<"function ">> \o (IF key = <<"constructor">> THEN <<"Object">> ELSE key) \o
         <<"() { [native code] }">>

\* the positions of the own property status of acc
OwnIndex(acc, status) == { i \in 1..Len(acc) : acc[i].status = status }

\* (acc[issue.status] || 0) + 1: the own property, else the inherited one, else 0
NextCount(acc, status) ==
    IF OwnIndex(acc, status) # {}
    THEN LET v == acc[CHOOSE i \in OwnIndex(acc, status) : TRUE].count
         IN  IF v.t = "number" THEN NumberValue(v.n + 1) ELSE StringValue(v.s \o <<"1">>)
    ELSE IF status \in ObjectPrototypeKeys
    THEN StringValue(InheritedText(status) \o <<"1">>)
    ELSE NumberValue(1)

\* acc[issue.status] = value: the __proto__ setter ignores a primitive
SetCount(acc, status, value) ==
    IF status = <<"__proto__">> THEN acc
    ELSE IF OwnIndex(acc, status) # {}
    THEN [i \in 1..Len(acc) |->
             IF acc[i].status = status THEN [status |-> status, count |-> value] ELSE acc[i]]
    ELSE Append(acc, [status |-> status, count |-> value])

\* issues.reduce((acc, issue) => ..., {}): the own properties in insertion order
RECURSIVE statusCount(_, _)
statusCount(list, acc) ==
    IF list = <<>> THEN acc
    ELSE statusCount(Tail(list),
                     SetCount(acc, Head(list).status, NextCount(acc, Head(list).status)))

\* Object.entries(statusCount) after the reduce over the issues
StatusEntries(list) ==
    LET acc  == statusCount(list, <<>>)
        keys == OwnKeyOrder([i \in 1..Len(acc) |-> acc[i].status])
    IN  [i \in 1..Len(keys) |-> acc[CHOOSE j \in 1..Len(acc) : acc[j].status = keys[i]]]

\* ${count}
CountText(v) == IF v.t = "number" THEN <<ToString(v.n)>> ELSE v.s

\* a table row without the assignee column
TableRowNoAssignee(issue) ==
    issue.key \o <<"\t">> \o issue.summary \o <<"\t">> \o issue.status

\* `${issue.key}\t${issue.summary}\t${issue.assignee}\t${issue.status}`
TableRow(issue) ==
    issue.key \o <<"\t">> \o issue.summary \o <<"\t">> \o
    issue.assignee \o <<"\t">> \o issue.status

\* formatIssuesTable
formatIssuesTable(list) ==
    LET entries == StatusEntries(list)
        summaryLines ==
            << <<"Total issues: ", ToString(Len(list))>>, <<"Issues by Status:">> >> \o
            [i \in 1..Len(entries) |->
                entries[i].status \o <<": ">> \o CountText(entries[i].count) \o <<" issues">>]
        tableHeader == <<"Issue", "\t", "Title", "\t", "Assignee", "\t", "Status">>
        tableRows ==
            Join([i \in 1..Len(list) |-> TableRow(list[i])], <<"\n">>)
    IN  [ summary |-> Join(summaryLines, <<"\n">>),
          table   |-> tableHeader \o <<"\n">> \o tableRows ]

\* IsRecipient without the trim
IsRecipientNoTrim(email) == email # Undefined /\ email # <<>>

\* the recipient test of sendEmail: defined and not blank
IsRecipient(email) == email # Undefined /\ Trim(email) # <<>>

RECURSIVE FilterRecipients(_)
FilterRecipients(emails) ==
    IF emails = <<>> THEN <<>>
    ELSE IF IsRecipient(Head(emails)) THEN <<Head(emails)>> \o FilterRecipients(Tail(emails))
    ELSE FilterRecipients(Tail(emails))

\* the recipients of the report
Recipients(e) == FilterRecipients([i \in 1..Len(optionalEmailVars) |-> e[optionalEmailVars[i]]])

\* NoRecipients never stopping the sending
NoRecipientsNever(recipients) == FALSE

\* the check that stops report sending when nobody is to receive it
NoRecipients(recipients) == Len(recipients) = 0

\* `${value}` for a value of the environment
Shown(v) == IF v = Undefined THEN <<"undefined">> ELSE v

\* the options of nodemailer.createTransport
TransportOptions(e) ==
    [ host |-> e["SMTP_SERVER"], port |-> e["SMTP_PORT"],
      user |-> e["smtp_username"], pass |-> e["EMAIL_PASSWORD"],
      rejectUnauthorized |-> FALSE,
      connectionTimeout |-> 60000, greetingTimeout |-> 30000, socketTimeout |-> 60000 ]

\* the rows of the HTML table: background by index parity, link, cells
HtmlRows(list) ==
    [i \in 1..Len(list) |->
        [ background |-> IF (i - 1) % 2 = 0 THEN "#ffffff" ELSE "#f9fafc",
          href       |-> <<"https://jira.corp.adobe.com/browse/">> \o list[i].key,
          cells      |-> <<list[i].key, list[i].summary, list[i].assignee, list[i].status>> ]]

mailOptions(list, e, recipients, summary, table) ==
    [ from    |-> <<"\"">> \o Shown(e["SENDER_NAME"]) \o <<"\" <">> \o Shown(e["SENDER_EMAIL"]) \o <<">">>,
      to      |-> Join(recipients, <<",">>),
      subject |-> <<"Sprint Update">>,
      text    |-> <<"Sprint Update\n\nSummary\n">> \o summary \o
                  <<"\n\nBelow is the current status of all issues in the active sprint:\nActive Sprint Issues\n">>
                  \o table \o <<"\n\nThis is an automated update from the Jira Sprint Board.">>,
      html    |-> [summary |-> summary, rows |-> HtmlRows(list)] ]

\* what transporter.sendMail does with a message: accepts it or fails
MailOutcomes ==
    { [kind |-> "value", value |-> [messageId |-> <<"<1@x>">>]],
      [kind |-> "throw", error |-> [t |-> "Error", message |-> "connect ETIMEDOUT"]] }

NoRecipientsError ==
    [t |-> "Error", message |-> "No valid email recipients found in environment variables"]

\* the catch block of sendEmail: the error and the content that would have been sent
SendFailureLog(error, recipients, summary, table) ==
    { <<"Error sending email:", error.message>>,
      <<"To: ">> \o Join(recipients, <<", ">>),
      <<"Subject: Sprint Update">>,
      <<"SUMMARY:">> \o summary,
      <<"ISSUES TABLE:">> \o table,
      <<"Email sending failed, but issue extraction was successful!">> }

\* SendEmailCatch throwing the error again
SendEmailCatchRethrows(error) == <<error>>

\* what the catch block of sendEmail throws to the caller: nothing
SendEmailCatch(error) == <<>>

\* sendEmail: the messages it submits to the transport, what it logs, and the
\* error it throws to its caller (none: the catch block ends normally)
sendEmail(list, outcome) ==
    LET formatted  == formatIssuesTable(list)
        summary    == formatted.summary
        table      == formatted.table
        recipients == Recipients(env)
        debug      == { <<"  Host: ">> \o Shown(env["SMTP_SERVER"]),
                        <<"  Username: ">> \o Shown(env["smtp_username"]),
                        <<"  Sender: ">> \o Shown(env["SENDER_EMAIL"]),
                        <<"  Doc_Email1: ">> \o OrElse(env["Doc_Email1"], <<"not set">>),
                        <<"  Doc_Email2: ">> \o OrElse(env["Doc_Email2"], <<"not set">>),
                        <<"  Doc_Email3: ">> \o OrElse(env["Doc_Email3"], <<"not set">>),
                        <<"  EMAIL_PASSWORD: ">> \o
                            (IF Falsy(env["EMAIL_PASSWORD"]) THEN <<"not set">> ELSE <<"set">>) }
        message    == mailOptions(list, env, recipients, summary, table)
        submission == [transport |-> TransportOptions(env), message |-> message, outcome |-> outcome]
    IN  IF NoRecipients(recipients)
        THEN [submitted |-> <<>>,
              logged |-> debug \cup SendFailureLog(NoRecipientsError, <<>>, summary, table),
              thrown |-> SendEmailCatch(NoRecipientsError)]
        ELSE IF outcome.kind = "throw"
        THEN [submitted |-> <<submission>>,
              logged |-> debug \cup SendFailureLog(outcome.error, recipients, summary, table),
              thrown |-> SendEmailCatch(outcome.error)]
        ELSE [submitted |-> <<submission>>,
              logged |-> debug \cup { <<"Email sent successfully!">>,
                                      <<"Recipients: ">> \o Join(recipients, <<", ">>) },
              thrown |-> <<>>]

\* the address a recipient variable holds when it holds one
Address(k) ==
    CASE k = "Doc_Email1" -> <<"a@x.io">>
      [] k = "Doc_Email2" -> <<" ", "b@x.io">>
      [] k = "Doc_Email3" -> <<"c@x.io">>

RecipientValues(k) == {Undefined, <<>>, <<" ">>, Address(k)}

CredentialKeys == {"JIRA_USERNAME", "JIRA_PASSWORD"}

NoFile == [k \in {} |-> Undefined]

\* .env files that define some of the tracker credentials
CredentialFiles ==
    UNION { [D -> {<<>>, <<"w">>}] : D \in SUBSET CredentialKeys }

\* an environment in which every variable is set
FullEnv == [k \in BatchEnvKeys |->
               IF k \in Range(requiredEnvVars) THEN <<"v">> ELSE Address(k)]

\* the environments and .env files of the model: the required variables vary,
\* or the recipients vary, or the tracker credentials and the .env file vary
InitBatch ==
    /\ \/ /\ \E r \in [Range(requiredEnvVars) -> EnvValues] :
               env = [k \in BatchEnvKeys |-> IF k \in DOMAIN r THEN r[k] ELSE FullEnv[k]]
          /\ dotEnvFile = NoFile
       \/ /\ \E r \in [Range(optionalEmailVars) -> UNION { RecipientValues(k) : k \in Range(optionalEmailVars) }] :
               /\ \A k \in DOMAIN r : r[k] \in RecipientValues(k)
               /\ env = [k \in BatchEnvKeys |-> IF k \in DOMAIN r THEN r[k] ELSE FullEnv[k]]
          /\ dotEnvFile = NoFile
       \/ /\ \E r \in [CredentialKeys -> EnvValues \cup {PreEncodedToken}] :
               /\ r["JIRA_USERNAME"] \in EnvValues
               /\ env = [k \in BatchEnvKeys |-> IF k \in DOMAIN r THEN r[k] ELSE FullEnv[k]]
          /\ dotEnvFile \in CredentialFiles
    /\ pc = "load"
    /\ exitStatus = <<>>
    /\ authHeader = Undefined
    /\ http = <<>>
    /\ svc = <<>>
    /\ issues = <<>>
    /\ runError = <<>>
    /\ mail = <<>>
    /\ log = {}
    /\ jiraConfig = NoConfig
    /\ calls = 0
    /\ response = NoResponse
    /\ tracker = NoOutcome
    /\ NoScraping

BatchIdle ==
    UNCHANGED <<dotEnvFile, jiraConfig, calls, response, tracker,
                browser, attempts, boardReady, currentUrl, elapsed>>

\* the top level of the module, to the check of the required variables: the
\* import of jiraService.ts (its dotenv load, config.AUTH_HEADER), the
\* overriding load of the .env file, the check. (The copies JIRA_EMAIL and
\* JIRA_API_TOKEN made at lines 36-37 are read by nothing and are left out.)
LoadConfig ==
    /\ pc = "load"
    /\ LET imported == DotenvConfig(env, dotEnvFile, FALSE)
           loaded   == DotenvConfig(imported, dotEnvFile, TRUE)
           missing  == missingVars(loaded)
           debug    == { <<"  SMTP_SERVER: ">> \o OrElse(loaded["SMTP_SERVER"], <<"NOT SET">>),
                         <<"  JIRA_USERNAME: ">> \o OrElse(loaded["JIRA_USERNAME"], <<"NOT SET">>),
                         <<"  JIRA_PASSWORD: ">> \o
                             (IF Falsy(loaded["JIRA_PASSWORD"]) THEN <<"NOT SET">> ELSE <<"SET">>),
                         <<"  SENDER_EMAIL: ">> \o OrElse(loaded["SENDER_EMAIL"], <<"NOT SET">>),
                         <<"  Doc_Email1: ">> \o OrElse(loaded["Doc_Email1"], <<"NOT SET">>) }
       IN  /\ authHeader' = AuthHeaderOf(imported)
           /\ env' = loaded
           /\ IF Len(missing) > 0
              THEN /\ log' = log \cup debug \cup { <<"Missing required environment variables:">> }
                               \cup { <<"  - ", missing[i]>> : i \in 1..Len(missing) }
                   /\ Exit(1)
              ELSE /\ log' = log \cup debug \cup
                               { <<"Using SMTP_SERVER: ">> \o loaded["SMTP_SERVER"],
                                 <<"Using SENDER_EMAIL: ">> \o loaded["SENDER_EMAIL"],
                                 <<"Using smtp_username: ">> \o loaded["smtp_username"] }
                   /\ pc' = "testConnection"
                   /\ UNCHANGED exitStatus
    /\ UNCHANGED <<http, svc, issues, runError, mail>>
    /\ BatchIdle

\* process.env.JIRA_RAPID_VIEW || '44313'
rapidViewId == OrElse(env["JIRA_RAPID_VIEW"], <<"44313">>)

\* an error thrown in fetchJiraIssuesFromBoard: logged and thrown again there and
\* in getJiraIssues, then handed to console.error at the top level
Reject(error) ==
    /\ runError' = <<error>>
    /\ pc' = "settled"
    /\ log' = log \cup { <<"Failed to fetch issues from Jira API:", error.message>>,
                         <<"Error in getJiraIssues:", error.message>>,
                         <<error.message>> }
    /\ UNCHANGED <<exitStatus, issues, mail, env, authHeader>>

\* a step of fetchJiraIssuesFromBoard that ended normally
Continue(next) ==
    /\ pc' = next
    /\ UNCHANGED <<exitStatus, runError, mail, env, authHeader, log>>

\* new JiraService() and the connection test
TestConnection ==
    /\ pc = "testConnection"
    /\ IF authHeader = Undefined
       THEN /\ Reject([t |-> "Error", message |-> "Jira authentication not configured. Please set JIRA_USERNAME and JIRA_PASSWORD environment variables."])
            /\ UNCHANGED <<http, svc>>
       ELSE \E outcome \in HttpOutcomes({ [displayName |-> <<"Alice">>] }) :
              LET call == testConnection(outcome) IN
              /\ http' = http \o call.requests
              /\ svc' = Append(svc, [method |-> "testConnection", result |-> call.result])
              /\ IF ~call.result.value
                 THEN Reject([t |-> "Error", message |-> "Failed to connect to Jira API. Please check your credentials."])
                 ELSE Continue("getBoardInfo")
    /\ UNCHANGED issues
    /\ BatchIdle

\* await jiraService.getBoardInfo(rapidViewId)
GetBoardInfo ==
    /\ pc = "getBoardInfo"
    /\ \E outcome \in HttpOutcomes({ [name |-> <<"Board">>] }) :
         LET call == getBoardInfo(rapidViewId, outcome) IN
         /\ http' = http \o call.requests
         /\ svc' = Append(svc, [method |-> "getBoardInfo", result |-> call.result])
         /\ IF call.result.kind = "throw"
            THEN Reject(call.result.error)
            ELSE Continue("getActiveSprintIssues")
    /\ UNCHANGED issues
    /\ BatchIdle

\* NeedsFallback asking for the board's issues in every run
NeedsFallbackAlways(list) == Len(list) >= 0

\* the test that sends fetchJiraIssuesFromBoard to the board's issues
NeedsFallback(list) == Len(list) = 0

\* let issues = await jiraService.getActiveSprintIssues(rapidViewId)
GetActiveSprintIssues ==
    /\ pc = "getActiveSprintIssues"
    /\ \E sprintsOutcome \in HttpOutcomes(SprintListData),
          issuesOutcome \in HttpOutcomes(IssueListData) :
         LET call == getActiveSprintIssues(rapidViewId, sprintsOutcome, issuesOutcome) IN
         /\ http' = http \o call.requests
         /\ svc' = Append(svc, [method |-> "getActiveSprintIssues", result |-> call.result])
         /\ IF call.result.kind = "throw"
            THEN Reject(call.result.error)
            ELSE /\ issues' = call.result.value
                 /\ Continue(IF NeedsFallback(call.result.value)
                             THEN "getBoardIssues" ELSE "issuesFetched")
    /\ BatchIdle

\* issues = await jiraService.getBoardIssues(rapidViewId)
GetBoardIssues ==
    /\ pc = "getBoardIssues"
    /\ \E outcome \in HttpOutcomes(IssueListData) :
         LET call == getBoardIssues(rapidViewId, outcome) IN
         /\ http' = http \o call.requests
         /\ svc' = Append(svc, [method |-> "getBoardIssues", result |-> call.result])
         /\ IF call.result.kind = "throw"
            THEN Reject(call.result.error)
            ELSE /\ issues' = call.result.value
                 /\ Continue("issuesFetched")
    /\ BatchIdle

\* a test for an empty extraction that never finds it empty
NoIssuesFoundNever(list) == Len(list) < 0

\* if (issues.length === 0) throw new Error('No issues found on the board')
NoIssuesFound(list) == Len(list) = 0

\* the end of fetchJiraIssuesFromBoard and the check of getJiraIssues
IssuesFetched ==
    /\ pc = "issuesFetched"
    /\ IF NoIssuesFound(issues)
       THEN Reject([t |-> "Error", message |-> "No issues found on the board"])
       ELSE /\ pc' = "sendEmail"
            /\ log' = log \cup { <<"Successfully fetched ", ToString(Len(issues)), " issues from Jira API!">> }
            /\ UNCHANGED <<exitStatus, runError, mail, env, authHeader, issues>>
    /\ UNCHANGED <<http, svc>>
    /\ BatchIdle

\* await sendEmail(issues), after which getJiraIssues resolves
SendEmail ==
    /\ pc = "sendEmail"
    /\ \E outcome \in MailOutcomes :
         LET sent == sendEmail(issues, outcome) IN
         /\ mail' = mail \o sent.submitted
         /\ log' = log \cup sent.logged
         /\ IF sent.thrown # <<>>
            THEN /\ runError' = sent.thrown
                 /\ pc' = "settled"
            ELSE /\ pc' = "settled"
                 /\ UNCHANGED runError
    /\ UNCHANGED <<exitStatus, env, authHeader, http, svc, issues>>
    /\ BatchIdle

\* getJiraIssues().catch(console.error) has settled and nothing is pending: the
\* process ends with the default status
ProcessEnd ==
    /\ pc = "settled"
    /\ Exit(0)
    /\ UNCHANGED <<env, authHeader, http, svc, issues, runError, mail, log>>
    /\ BatchIdle

NextBatch ==
    \/ LoadConfig
    \/ TestConnection
    \/ GetBoardInfo
    \/ GetActiveSprintIssues
    \/ GetBoardIssues
    \/ IssuesFetched
    \/ SendEmail
    \/ ProcessEnd

SpecBatch == InitBatch /\ [][NextBatch]_vars

----------------------------------------------------------------------------
(* Properties of the tool server, checked under SpecServer *)

OneTextBlock(r) ==
    r.kind = "returned" /\ Len(r.content) = 1 /\ r.content[1].type = "text"

HasFragment(text, fragment) == \E i \in 1..Len(text) : text[i] = fragment

\* C1: whatever the tracker call does (a value, nothing, a malformed value, any
\* thrown value), a tool handler ends by returning exactly one content block of
\* type "text"; it never rejects.
C1_HandlerNeverRejects == response # NoResponse => OneTextBlock(response)

ConfigMissing == Falsy(env["JIRA_USERNAME"]) \/ Falsy(env["JIRA_PASSWORD"])

\* C2: when the tracker username or password is missing, every tool invocation
\* returns a text containing "Configuration error" and the process issues no
\* tracker request, at any time.
C2_ConfigErrorShortCircuit ==
    ConfigMissing =>
        /\ http = <<>>
        /\ (calls > 0 =>
              /\ OneTextBlock(response)
              /\ HasFragment(response.content[1].text, "Configuration error: "))

C2_Witness ==
    /\ ConfigMissing
    /\ ~Falsy(env["JIRA_USERNAME"])
    /\ calls = 2
    /\ response # NoResponse

----------------------------------------------------------------------------
(* Properties of the REST batch reporter, checked under SpecBatch *)

\* the required variables that are absent or empty
AbsentRequired ==
    { k \in Range(requiredEnvVars) : env[k] = Undefined \/ env[k] = <<>> }

\* the variables the log names as missing
NamedMissing == { k \in Range(requiredEnvVars) : <<"  - ", k>> \in log }

Ended == pc \in {"settled", "exited"}

\* C3: if any of the nine required variables is absent or empty at startup, the
\* process names every absent one and exits with status 1 before any tracker
\* request or mail; if none is absent, it goes on to extraction.
C3_MissingConfigIsFatal ==
    pc # "load" =>
        IF AbsentRequired # {}
        THEN /\ pc = "exited"
             /\ exitStatus = <<1>>
             /\ NamedMissing = AbsentRequired
             /\ http = <<>>
             /\ svc = <<>>
             /\ mail = <<>>
        ELSE /\ exitStatus # <<1>>
             /\ NamedMissing = {}
             /\ (pc = "testConnection" \/ svc # <<>> \/ runError # <<>>)

C3_Witness ==
    /\ pc = "exited"
    /\ exitStatus = <<1>>
    /\ env["SMTP_PORT"] = Undefined
    /\ env["JIRA_PASSWORD"] = <<>>
    /\ Cardinality(NamedMissing) = 2

MailFailed == \E i \in 1..Len(mail) : mail[i].outcome.kind = "throw"

\* the recipient variables that hold something else than blanks
NonBlank(v) == v # Undefined /\ \E i \in 1..Len(v) : v[i] # " "

ExpectedRecipients ==
    (IF NonBlank(env["Doc_Email1"]) THEN << env["Doc_Email1"] >> ELSE <<>>) \o
    (IF NonBlank(env["Doc_Email2"]) THEN << env["Doc_Email2"] >> ELSE <<>>) \o
    (IF NonBlank(env["Doc_Email3"]) THEN << env["Doc_Email3"] >> ELSE <<>>)

\* C4: when the mail transport fails, sendEmail does not raise: the would-be
\* recipients, subject, summary and table are logged and the run ends without
\* failure.
C4_MailFailureIsLogged ==
    MailFailed =>
        /\ Ended
        /\ runError = <<>>
        /\ (pc = "exited" => exitStatus = <<0>>)
        /\ (<<"To: ">> \o Join(ExpectedRecipients, <<", ">>)) \in log
        /\ <<"Subject: Sprint Update">> \in log
        /\ (<<"SUMMARY:">> \o formatIssuesTable(issues).summary) \in log
        /\ (<<"ISSUES TABLE:">> \o formatIssuesTable(issues).table) \in log

C4_Witness ==
    /\ MailFailed
    /\ pc = "exited"
    /\ Len(issues) = 2
    /\ Len(ExpectedRecipients) = 2

\* C5: if an extraction step fails, the run sends no email and the process ends
\* with a non-zero exit status; a mail delivery failure leaves the run successful.
C5_ExtractionFailureIsFatal ==
    /\ (pc = "exited" /\ runError # <<>> => mail = <<>> /\ exitStatus # <<0>>)
    /\ (pc = "exited" /\ MailFailed => exitStatus = <<0>> /\ runError = <<>>)

CountCalls(method) == Cardinality({ i \in 1..Len(svc) : svc[i].method = method })

SprintCallReturned(list) ==
    \E i \in 1..Len(svc) :
        /\ svc[i].method = "getActiveSprintIssues"
        /\ svc[i].result.kind = "ok"
        /\ svc[i].result.value = list

\* C6: in one run getBoardIssues is called exactly once when
\* getActiveSprintIssues returned an empty sequence, and never when it returned
\* a non-empty one.
C6_FallbackExactlyOnce ==
    /\ CountCalls("getActiveSprintIssues") <= 1
    /\ CountCalls("getBoardIssues") <= 1
    /\ \A i \in 1..Len(svc) :
         (svc[i].method = "getActiveSprintIssues" /\ svc[i].result.kind = "ok") =>
             IF svc[i].result.value = <<>>
             THEN pc # "getBoardIssues" => CountCalls("getBoardIssues") = 1
             ELSE CountCalls("getBoardIssues") = 0
    /\ (CountCalls("getBoardIssues") = 1 => SprintCallReturned(<<>>))

C6_Witness ==
    /\ pc = "exited"
    /\ SprintCallReturned(<<>>)
    /\ CountCalls("getBoardIssues") = 1
    /\ Len(issues) = 2
    /\ \E i \in 1..Len(http) :
         /\ http[i].path = <<"/sprint/", "12", "/issue">>
         /\ http[i].outcome.kind = "value"

SprintListRequests == { i \in 1..Len(http) : http[i].path = <<"/board/">> \o rapidViewId \o <<"/sprint">> }

SprintIssueRequests == { i \in 1..Len(http) : http[i].path[1] = "/sprint/" }

\* C7: with no active sprint (no list or an empty one) getActiveSprintIssues
\* returns an empty sequence, throws nothing and asks for no sprint's issues;
\* with active sprints it asks once, for the first one, and returns its issues
\* in the tracker's order.
C7_ActiveSprintIssues ==
    \A i \in 1..Len(svc) : svc[i].method = "getActiveSprintIssues" =>
        /\ Cardinality(SprintListRequests) = 1
        /\ \A j \in SprintListRequests : http[j].outcome.kind = "value" =>
             LET data == http[j].outcome.value IN
             IF data.t = "novalues" \/ data.values = <<>>
             THEN /\ svc[i].result = Ok(<<>>)
                  /\ SprintIssueRequests = {}
             ELSE \E k \in SprintIssueRequests :
                    /\ SprintIssueRequests = {k}
                    /\ http[k].path = <<"/sprint/">> \o data.values[1].id \o <<"/issue">>
                    /\ (http[k].outcome.kind = "value" /\ http[k].outcome.value.t = "issues" =>
                          LET raw == http[k].outcome.value.issues IN
                          /\ svc[i].result.kind = "ok"
                          /\ Len(svc[i].result.value) = Len(raw)
                          /\ \A n \in 1..Len(raw) : svc[i].result.value[n].key = raw[n].key)

C7_Witness ==
    /\ \E j \in SprintListRequests :
         /\ http[j].outcome.kind = "value"
         /\ http[j].outcome.value.t = "sprints"
         /\ Len(http[j].outcome.value.values) = 2
    /\ \E i \in 1..Len(svc) :
         /\ svc[i].method = "getActiveSprintIssues"
         /\ svc[i].result.kind = "ok"
         /\ Len(svc[i].result.value) = 2
         /\ svc[i].result.value[1].key # svc[i].result.value[2].key

\* C8: a failed request in getBoardInfo, getActiveSprintIssues or getBoardIssues
\* is raised to the caller, no tracker request follows it, and no endpoint is
\* asked twice in a run.
C8_FailurePropagatesNoRetry ==
    /\ \A i, j \in 1..Len(http) : http[i].path = http[j].path => i = j
    /\ \A i \in 1..Len(http) : http[i].outcome.kind = "throw" =>
         /\ i = Len(http)
         /\ Ended
         /\ runError # <<>>
         /\ (http[i].api = "agile" =>
               /\ runError = << http[i].outcome.error >>
               /\ svc[Len(svc)].result = Thrown(http[i].outcome.error))

C8_Witness ==
    /\ pc = "exited"
    /\ Len(http) = 2
    /\ http[2].api = "agile"
    /\ http[2].outcome.kind = "throw"

ReachedSending == Ended /\ runError = <<>> /\ exitStatus # <<1>>

C10_NoRecipientsAbortsSendingOnly ==
    (ReachedSending /\ ExpectedRecipients = <<>>) =>
        /\ mail = <<>>
        /\ <<"Error sending email:", "No valid email recipients found in environment variables">> \in log
        /\ runError = <<>>
        /\ (pc = "exited" => exitStatus = <<0>>)

C10_Witness ==
    /\ pc = "exited"
    /\ ReachedSending
    /\ env["Doc_Email1"] = Undefined
    /\ env["Doc_Email2"] = <<>>
    /\ env["Doc_Email3"] = <<" ">>
    /\ mail = <<>>

----------------------------------------------------------------------------
(* Startup and termination of the tool server, checked under SpecServer *)

\* the authentication probes issued so far
AuthProbes == Cardinality({ i \in 1..Len(http) : http[i].op = "getCurrentUser" })

\* C11: every startup path of main (configuration invalid, probe failed, probe
\* succeeded) goes on to connect the transport; the authentication probe is
\* issued exactly once when the configuration is valid and never when it is
\* invalid, and it has completed when the transport is connected.
C11_StartupAlwaysConnects ==
    [][ (MainLimitedMode \/ MainAuthProbe) =>
          /\ pc' = "connect"
          /\ AuthProbes = 0
          /\ AuthProbes' = IF validateJiraConfig = Null THEN 1 ELSE 0 ]_vars

SignalLogged ==
    \E sig \in {"SIGINT", "SIGTERM"} : <<"Received ", sig, " signal, shutting down...">> \in log

FaultLogged ==
    \/ <<"Uncaught exception:">> \in log
    \/ \E line \in log : Len(line) >= 1 /\ line[1] = "Error starting Jira MCP server:"

\* C12: a signal can arrive in every state of the running process and makes it
\* exit with status 0; an uncaught exception or a failure while starting the
\* server makes it exit with status 1; no other exit status is produced.
C12_ExitStatus ==
    /\ exitStatus \in { <<>>, <<0>>, <<1>> }
    /\ (pc = "exited") = (exitStatus # <<>>)
    /\ (pc # "exited" => ENABLED Signal)
    /\ (exitStatus = <<0>>) = SignalLogged
    /\ (exitStatus = <<1>>) = FaultLogged

C12_Witness ==
    /\ pc = "exited"
    /\ exitStatus = <<0>>
    /\ SignalLogged
    /\ calls = 1
    /\ response # NoResponse

----------------------------------------------------------------------------
(* The report formatter and the issue transform, checked under SpecBatch *)

\* the lines of a text: the pieces between its newline fragments
RECURSIVE SplitLines(_, _)
SplitLines(text, line) ==
    IF text = <<>> THEN <<line>>
    ELSE IF Head(text) = "\n" THEN <<line>> \o SplitLines(Tail(text), <<>>)
    ELSE SplitLines(Tail(text), Append(line, Head(text)))

\* the report has been built from the extracted issues
ReportBuilt == mail # <<>>

SummaryLinesOf(list) == SplitLines(formatIssuesTable(list).summary, <<>>)

StatusLinesOf(list) == SubSeq(SummaryLinesOf(list), 3, Len(SummaryLinesOf(list)))

DistinctStatuses(list) == { list[i].status : i \in 1..Len(list) }

CountStatus(list, status) == Cardinality({ i \in 1..Len(list) : list[i].status = status })

\* C13: for any list of issues, with any status strings, the summary's total is
\* the length of the list, there is exactly one status line per distinct status,
\* and the count of each line is the number of issues with that status (at
\* least 1), so the counts sum to the total.
C13_SummaryCounts ==
    ReportBuilt =>
        /\ mail[1].message.html.summary = formatIssuesTable(issues).summary
        /\ SummaryLinesOf(issues)[1] = <<"Total issues: ", ToString(Len(issues))>>
        /\ SummaryLinesOf(issues)[2] = <<"Issues by Status:">>
        /\ Len(StatusLinesOf(issues)) = Cardinality(DistinctStatuses(issues))
        /\ \A status \in DistinctStatuses(issues) :
             /\ CountStatus(issues, status) >= 1
             /\ \E i \in 1..Len(StatusLinesOf(issues)) :
                  StatusLinesOf(issues)[i] =
                      status \o <<": ", ToString(CountStatus(issues, status)), " issues">>

\* the distinct statuses of a list in the order the list first shows them
RECURSIVE FirstOccurrences(_, _)
FirstOccurrences(list, seen) ==
    IF list = <<>> THEN seen
    ELSE IF \E i \in 1..Len(seen) : seen[i] = Head(list).status
    THEN FirstOccurrences(Tail(list), seen)
    ELSE FirstOccurrences(Tail(list), Append(seen, Head(list).status))

\* C14: the status lines of the summary appear in the order in which each
\* status first occurs in the input list.
C14_StatusLinesInFirstOccurrenceOrder ==
    ReportBuilt =>
        LET order == FirstOccurrences(issues, <<>>)
            lines == StatusLinesOf(issues)
        IN  /\ Len(lines) = Len(order)
            /\ \A i \in 1..Len(order) :
                 SubSeq(lines[i], 1, Len(order[i]) + 1) = order[i] \o <<": ">>

TableLinesOf(list) == SplitLines(formatIssuesTable(list).table, <<>>)

\* C15: for a non-empty list the table is the header line followed by exactly
\* one line per issue, in input order, holding key, summary, assignee and status
\* separated by tabs; the lines are joined by newlines with none at the end.
C15_TableRowsInInputOrder ==
    (ReportBuilt /\ issues # <<>>) =>
        LET table == formatIssuesTable(issues).table
            lines == TableLinesOf(issues)
        IN  /\ \E i \in 1..Len(mail[1].message.text) :
                 SubSeq(mail[1].message.text, i, i + Len(table) - 1) = table
            /\ Len(lines) = Len(issues) + 1
            /\ lines[1] = <<"Issue", "\t", "Title", "\t", "Assignee", "\t", "Status">>
            /\ \A i \in 1..Len(issues) :
                 lines[i + 1] = issues[i].key \o <<"\t">> \o issues[i].summary \o <<"\t">> \o
                                issues[i].assignee \o <<"\t">> \o issues[i].status
            /\ table[Len(table)] # "\n"

C15_Witness ==
    /\ ReportBuilt
    /\ Len(issues) = 2
    /\ issues[1].key = <<"P-2">>
    /\ issues[2].key = <<"P-1">>
    /\ TableLinesOf(issues)[2] = <<"P-2", "\t", "Add test", "\t", "Unassigned", "\t", "2">>

\* the issue requests of a service method that returns issues
IssueRequestsOf(method) ==
    { i \in 1..Len(http) :
        /\ http[i].path[1] = (IF method = "getBoardIssues" THEN "/board/" ELSE "/sprint/")
        /\ http[i].path[Len(http[i].path)] = "/issue" }

\* the calls of the service that transformed a list of raw issues
TransformCalls ==
    { j \in 1..Len(svc) :
        /\ svc[j].method \in {"getActiveSprintIssues", "getBoardIssues"}
        /\ svc[j].result.kind = "ok"
        /\ IssueRequestsOf(svc[j].method) # {} }

\* the raw issues the tracker returned to a transforming call
RawListOf(j) ==
    IssuesOrEmpty(http[CHOOSE i \in IssueRequestsOf(svc[j].method) : TRUE].outcome.value)

CopiesFields(raw, mapped) ==
    /\ mapped.key = raw.key
    /\ mapped.summary = raw.summary
    /\ mapped.status = raw.statusName

DefaultsWhenNull(raw, mapped) ==
    /\ CopiesFields(raw, mapped)
    /\ mapped.assignee = (IF raw.assignee.t = "null" THEN <<"Unassigned">>
                          ELSE raw.assignee.displayName)
    /\ mapped.priority = (IF raw.priority.t = "null" THEN <<"Medium">>
                          ELSE raw.priority.name)

DefaultsWhenNullOrEmpty(raw, mapped) ==
    /\ CopiesFields(raw, mapped)
    /\ mapped.assignee = (IF raw.assignee.t = "null" \/ raw.assignee.displayName = <<>>
                          THEN <<"Unassigned">> ELSE raw.assignee.displayName)
    /\ mapped.priority = (IF raw.priority.t = "null" \/ raw.priority.name = <<>>
                          THEN <<"Medium">> ELSE raw.priority.name)

\* every transforming call returned one issue per raw issue, in the tracker's
\* order, each related to its raw issue by Maps
EachIssueMapped(Maps(_, _)) ==
    \A j \in TransformCalls :
        /\ Len(svc[j].result.value) = Len(RawListOf(j))
        /\ \A k \in 1..Len(RawListOf(j)) : Maps(RawListOf(j)[k], svc[j].result.value[k])

\* C16 as claimed: the mapped assignee is "Unassigned" when the raw assignee is
\* null and the raw display name otherwise, the mapped priority is "Medium" when
\* the raw priority is null and the raw priority name otherwise; key, summary
\* and status are copied and the order of the issues is kept.
C16_DefaultsOnlyWhenNull == EachIssueMapped(DefaultsWhenNull)

\* C16, amended: the mapped assignee is "Unassigned" when the raw assignee is
\* null or its display name is empty, and the raw display name otherwise; the
\* mapped priority is "Medium" when the raw priority is null or its name is
\* empty, and the raw priority name otherwise; key, summary and status are
\* copied and the order of the issues is kept.
C16_DefaultsWhenNullOrEmpty == EachIssueMapped(DefaultsWhenNullOrEmpty)

C16_Witness ==
    /\ \E j \in TransformCalls :
         /\ svc[j].method = "getBoardIssues"
         /\ Len(RawListOf(j)) = 2
         /\ RawListOf(j)[1].assignee = [t |-> "user", displayName |-> <<>>]
         /\ RawListOf(j)[2].assignee = [t |-> "user", displayName |-> <<"Alice">>]
    /\ Len(issues) = 2
    /\ issues[1].assignee = <<"Unassigned">>
    /\ issues[1].priority = <<"Medium">>
    /\ issues[2].assignee = <<"Alice">>
    /\ issues[2].priority = <<"High">>

----------------------------------------------------------------------------
(* The tool handlers' results, checked under SpecServer *)

\* the latest tool invocation called the tracker with operation op
LatestCall(op) ==
    /\ validateJiraConfig = Null
    /\ tracker # NoOutcome
    /\ http # <<>>
    /\ http[Len(http)].op = op

\* the issue key of the latest tracker call
RequestedKey == http[Len(http)].arg

\* the tracker returned no comment container, no comment list or an empty list
NoCommentsReturned ==
    /\ tracker.kind = "value"
    /\ \/ tracker.value.t = "null"
       \/ tracker.value.t = "object"
       \/ (tracker.value.t = "container" /\ tracker.value.comments = <<>>)

\* C17: read-comments with a valid configuration returns exactly the text
\* "No comments found for issue <issueKey>" when the tracker returns no comment
\* container, no comment list or an empty comment list; it does not throw.
C17_NoCommentsText ==
    (LatestCall("getComments") /\ NoCommentsReturned) =>
        response = TextResult(<<"No comments found for issue ">> \o RequestedKey)

C17_Witness ==
    /\ LatestCall("getComments")
    /\ tracker = [kind |-> "value", value |-> [t |-> "container", comments |-> <<>>]]
    /\ calls = 2
    /\ response = TextResult(<<"No comments found for issue ", "A", "B", "-", "1">>)

\* field when the tracker gave one, placeholder otherwise
FieldOr(field, placeholder) ==
    IF field = Undefined \/ field = <<>> THEN placeholder ELSE field

\* text begins with prefix
StartsWith(text, prefix) ==
    Len(text) >= Len(prefix) /\ SubSeq(text, 1, Len(prefix)) = prefix

\* C19: read-description with a valid configuration returns the text block with
\* key, summary, type, status and description (placeholders for missing fields)
\* when the tracker returns an issue, the text "Issue <issueKey> not found" when
\* it returns no issue, and a text starting "Failed to retrieve issue
\* <issueKey>:" followed by the error's message when the tracker call fails.
C19_DescriptionOutcomes ==
    LatestCall("findIssue") =>
        /\ (tracker.kind = "value" /\ tracker.value.t = "issue") =>
              response = TextResult(
                  <<"Issue: ">> \o RequestedKey \o
                  <<"\n", "Summary: ">> \o
                  FieldOr(tracker.value.fields.summary, <<"No summary available">>) \o
                  <<"\n", "Type: ">> \o
                  FieldOr(tracker.value.fields.issuetypeName, <<"Unknown type">>) \o
                  <<"\n", "Status: ">> \o
                  FieldOr(tracker.value.fields.statusName, <<"Unknown status">>) \o
                  <<"\n", "\nDescription:\n">> \o
                  FieldOr(tracker.value.fields.description, <<"No description available">>))
        /\ (tracker.kind = "value" /\ tracker.value.t = "null") =>
              response = TextResult(<<"Issue ">> \o RequestedKey \o <<" not found">>)
        /\ tracker.kind = "throw" =>
              /\ OneTextBlock(response)
              /\ StartsWith(response.content[1].text,
                            <<"Failed to retrieve issue ">> \o RequestedKey \o <<": ">>)
              /\ (tracker.error.t = "Error" =>
                    response.content[1].text =
                        <<"Failed to retrieve issue ">> \o RequestedKey \o
                        <<": ", tracker.error.message>>)

\* the tracker returned a non-empty list of comment objects
CommentsReturned ==
    /\ tracker.kind = "value"
    /\ tracker.value.t = "container"
    /\ tracker.value.comments # <<>>
    /\ \A i \in 1..Len(tracker.value.comments) : tracker.value.comments[i].t = "comment"

\* C20: read-comments, for a non-empty list of comments, returns a text with one
\* block per comment (author, date, body), every comment exactly once and in
\* the tracker's order, each block ended by the delimiter line "---".
C20_OneBlockPerComment ==
    (LatestCall("getComments") /\ CommentsReturned) =>
        /\ OneTextBlock(response)
        /\ LET comments == tracker.value.comments
               text     == response.content[1].text
               heading  == <<"Comments for ">> \o RequestedKey \o <<":\n\n">>
               lines    == SplitLines(SubSeq(text, Len(heading) + 1, Len(text)), <<>>)
           IN  /\ StartsWith(text, heading)
               /\ Len(lines) = 4 * Len(comments)
               /\ \A i \in 1..Len(comments) :
                    /\ lines[4 * i - 3] =
                           <<"Author: ">> \o FieldOr(comments[i].authorName, <<"Unknown">>)
                    /\ lines[4 * i - 2] = <<"Date: ">> \o ToLocaleString(comments[i].created)
                    /\ lines[4 * i - 1] =
                           <<"Comment:\n">> \o FieldOr(comments[i].body, <<"No content">>)
                    /\ lines[4 * i] = <<"---">>

C20_Witness ==
    /\ LatestCall("getComments")
    /\ CommentsReturned
    /\ Len(tracker.value.comments) = 2
    /\ tracker.value.comments[1].authorName = <<"Bob">>
    /\ tracker.value.comments[2].authorName = <<"Alice">>
    /\ StartsWith(response.content[1].text,
                  <<"Comments for ", "A", "B", "-", "1", ":\n\n", "Author: ", "Bob">>)

----------------------------------------------------------------------------
(* The connection test, checked under SpecBatch *)

\* C18: testConnection returns true exactly when GET /myself succeeds; when the
\* request fails it returns false and does not throw; in the batch reporter a
\* false result aborts the extraction before any board, sprint or issue request.
C18_ConnectionTestGatesExtraction ==
    \A j \in 1..Len(svc) :
        svc[j].method = "testConnection" =>
            /\ j = 1
            /\ http[1].api = "api"
            /\ http[1].path = <<"/myself">>
            /\ svc[j].result.kind = "ok"
            /\ svc[j].result.value = (http[1].outcome.kind = "value")
            /\ (~svc[j].result.value =>
                  /\ Len(http) = 1
                  /\ Len(svc) = 1
                  /\ issues = <<>>
                  /\ mail = <<>>
                  /\ runError # <<>>
                  /\ runError[1].message =
                         "Failed to connect to Jira API. Please check your credentials.")

C18_Witness ==
    /\ pc = "exited"
    /\ Len(svc) = 1
    /\ svc[1] = [method |-> "testConnection", result |-> Ok(FALSE)]
    /\ http[1].outcome.kind = "throw"
    /\ Len(http) = 1

----------------------------------------------------------------------------
(* The issue key of a tool invocation, checked under SpecServer *)

UpperCaseLetters ==
    { "A", "B", "C", "D", "E", "F", "G", "H", "I", "J", "K", "L", "M",
      "N", "O", "P", "Q", "R", "S", "T", "U", "V", "W", "X", "Y", "Z" }

\* key is upper-case letters, a hyphen, digits (PROJECT-123)
HasIssueKeyShape(key) ==
    \E h \in 2..(Len(key) - 1) :
        /\ key[h] = "-"
        /\ \A i \in 1..(h - 1) : key[i] \in UpperCaseLetters
        /\ \A i \in (h + 1)..Len(key) : key[i] \in Digits

\* C21: an invocation of read-description or read-comments whose issueKey does
\* not have the UPPERCASE-DIGITS issue-key shape does not reach the tracker.
C21_OnlyShapedKeysReachTracker ==
    \A i \in 1..Len(http) :
        http[i].op \in {"findIssue", "getComments"} => HasIssueKeyShape(http[i].arg)

----------------------------------------------------------------------------
(* The order of the steps of a batch run, checked under SpecBatch *)

\* the service methods in the order fetchJiraIssuesFromBoard calls them
ExtractionSteps ==
    <<"testConnection", "getBoardInfo", "getActiveSprintIssues", "getBoardIssues">>

\* the list the extraction ended with came back empty from the sprint query and
\* from the board fallback
BothQueriesEmpty ==
    /\ Len(svc) = 4
    /\ svc[3].result = Ok(<<>>)
    /\ svc[4].result = Ok(<<>>)

\* C22: the steps of a batch run occur in the order configuration validation,
\* connection test, board-info request, active-sprint query, optional board
\* fallback, report formatting, mail submission; mail is submitted only after
\* the extraction has returned and never with an empty issue list; when both
\* queries yield no issues the run fails with the no-issues error and sends
\* nothing.
C22_StepOrder ==
    /\ Len(svc) <= 4
    /\ \A j \in 1..Len(svc) : svc[j].method = ExtractionSteps[j]
    /\ \A j \in 1..(Len(svc) - 1) : svc[j].result.kind = "ok"
    /\ (svc # <<>> => pc # "load" /\ AbsentRequired = {})
    /\ (Len(svc) >= 2 => svc[1].result.value)
    /\ (Len(svc) = 4 => svc[3].result.value = <<>>)
    /\ (pc \in {"issuesFetched", "sendEmail"} =>
          /\ Len(svc) >= 3
          /\ svc[Len(svc)].result = Ok(issues)
          /\ mail = <<>>)
    /\ (pc = "sendEmail" => issues # <<>>)
    /\ (mail # <<>> =>
          /\ Len(mail) = 1
          /\ Len(svc) >= 3
          /\ svc[Len(svc)].result = Ok(issues)
          /\ issues # <<>>
          /\ mail[1].message.html.summary = formatIssuesTable(issues).summary
          /\ Len(mail[1].message.html.rows) = Len(issues))
    /\ ((BothQueriesEmpty /\ Ended) =>
          /\ mail = <<>>
          /\ runError # <<>>
          /\ runError[1].message = "No issues found on the board")

C22_Witness ==
    /\ pc = "exited"
    /\ Len(svc) = 4
    /\ svc[3].result = Ok(<<>>)
    /\ Len(issues) = 2
    /\ Len(mail) = 1
    /\ runError = <<>>

----------------------------------------------------------------------------
(* The Authorization header of the tracker requests, checked under SpecBatch *)

\* C23: for every tracker username and token, the Authorization header of the
\* tracker requests is "Basic " followed by the base64 encoding of
\* "username:token", and the plain API client and the agile API client send
\* the same header. (Stated for runs without a .env file, where the process
\* environment is the only source of the credentials.)
C23_BasicAuthHeader ==
    dotEnvFile = NoFile =>
        \A i \in 1..Len(http) :
            /\ http[i].authorization =
                   <<"Basic ">> \o
                   Base64Encode(env["JIRA_USERNAME"] \o <<":">> \o env["JIRA_PASSWORD"])
            /\ \A j \in 1..Len(http) : http[j].authorization = http[i].authorization

\* C24: when the .env file defines tracker credentials that differ from those of
\* the process environment, the file's values override, and the Authorization
\* header of the tracker requests is built from the same tracker username and
\* password, those after the override, that the configuration check validated.
C24_HeaderFromValidatedCredentials ==
    pc # "load" =>
        /\ \A k \in DOMAIN dotEnvFile : env[k] = dotEnvFile[k]
        /\ authHeader = AuthHeaderOf(env)
        /\ \A i \in 1..Len(http) : http[i].authorization = AuthHeaderOf(env)

----------------------------------------------------------------------------
(* The configuration of the tool server, checked under SpecServer *)

\* C25: the configuration record and the result of configuration validation are
\* fixed at process start: no tool invocation, authentication probe or other
\* step modifies them, so the validation outcome is the same for every call.
C25_ConfigurationIsFixed ==
    [][ /\ jiraConfig' = jiraConfig
        /\ jiraConfig' = MakeJiraConfig(env')
        /\ validateJiraConfig' = validateJiraConfig ]_vars

C25_Witness ==
    /\ pc = "exited"
    /\ calls = 2
    /\ AuthProbes = 1
    /\ Len(http) = 3
    /\ jiraConfig = MakeJiraConfig(env)
    /\ validateJiraConfig = Null

\* the startup probe failed and the server went on in limited mode
ProbeFailed ==
    \E line \in log : Len(line) >= 1 /\ line[1] = "Jira authentication error: "

ProbeSucceeded == <<"Jira authentication successful!">> \in log

\* the tracker requests issued by tool invocations
ToolRequests ==
    Cardinality({ i \in 1..Len(http) : http[i].op \in {"findIssue", "getComments"} })

----------------------------------------------------------------------------
(* What the tool server writes to its console, checked under SpecServer *)

\* text holds the fragments of part, in order and adjacent
Contains(text, part) ==
    \E i \in 1..(Len(text) - Len(part) + 1) : SubSeq(text, i, i + Len(part) - 1) = part

\* C29: the value of the tracker password is never written to the log or to
\* the console; at most its presence is reported.
C29_PasswordNeverLogged ==
    jiraConfig.password # <<>> =>
        \A line \in log : ~Contains(line, jiraConfig.password)

----------------------------------------------------------------------------
(* The scraping reporter, src/unnamed/part_002. Its sendEmail and its top     *)
(* level are those of the REST reporter (actions SendEmail and ProcessEnd);   *)
(* the lines the polling loop logs for each check are not part of log.        *)

\* const maxAttempts = 60
maxAttempts == 60

\* `https://jira.corp.adobe.com/secure/RapidBoard.jspa?rapidView=${rapidViewId}`
boardUrl ==
    <<"https://", "jira.corp.adobe.com", "/secure/", "RapidBoard", ".jspa?rapidView=">> \o
    rapidViewId

\* the addresses the page can be at when the loop checks it
PageUrls ==
    { boardUrl,
      <<"https://", "jira.corp.adobe.com", "/login.jsp">>,
      <<"https://", "adobe.okta.com", "/app/", "RapidBoard">>,
      <<"https://", "adobe.okta.com", "/login">> }

\* what page.url() does in a check: it returns an address or it throws
CheckOutcomes == { [kind |-> "value", value |-> u] : u \in PageUrls } \cup { [kind |-> "throw"] }

\* currentUrl.includes('jira.corp.adobe.com') && currentUrl.includes('RapidBoard')
OnScrumBoard(url) == Includes(url, "jira.corp.adobe.com") /\ Includes(url, "RapidBoard")

\* the issues page.evaluate can extract from the board
ScrapedIssues ==
    { [key |-> <<"CQDOC-1">>, summary |-> <<"Fix bug">>, status |-> <<"Open">>,
       assignee |-> <<"Alice">>, issueType |-> <<"Documentation">>, priority |-> <<"Medium">>],
      [key |-> <<"CQDOC-2">>, summary |-> <<"Add test">>, status |-> <<"In Progress">>,
       assignee |-> <<"Unassigned">>, issueType |-> <<"Documentation">>,
       priority |-> <<"Medium">>] }

\* what page.evaluate does: it returns a list of issues or it throws
EvaluateOutcomes ==
    { [kind |-> "value", value |-> l] : l \in SeqsUpTo(ScrapedIssues, MaxIssues) } \cup
    { [kind |-> "throw", error |-> [t |-> "Error", message |-> "Execution context was destroyed"]] }

TimeoutError ==
    [t |-> "Error",
     message |-> "Timeout waiting for scrum board access - please ensure authentication is completed"]

NoScrapedIssuesError ==
    [t |-> "Error",
     message |-> "No issues found on the scrum board - please verify the board contains issues"]

\* process start of the scraping reporter, after its environment check passed
InitScrape ==
    /\ \E recipient \in {Undefined, Address("Doc_Email1")} :
         env = [FullEnv EXCEPT !["Doc_Email1"] = recipient]
    /\ dotEnvFile = NoFile
    /\ pc = "launch"
    /\ exitStatus = <<>>
    /\ authHeader = Undefined
    /\ http = <<>>
    /\ svc = <<>>
    /\ issues = <<>>
    /\ runError = <<>>
    /\ mail = <<>>
    /\ log = {}
    /\ jiraConfig = NoConfig
    /\ calls = 0
    /\ response = NoResponse
    /\ tracker = NoOutcome
    /\ NoScraping

ScrapeIdle ==
    UNCHANGED <<env, dotEnvFile, jiraConfig, authHeader, http, svc, calls, response, tracker,
                exitStatus, mail>>

\* a throw inside the try block: the catch block logs it and throws it again,
\* which leaves the finally block to run
ThrowInTry(error) ==
    /\ runError' = <<error>>
    /\ log' = log \cup { <<"Failed to extract real issues from scrum board:", error.message>> }
    /\ pc' = "finally"

\* const browser = await puppeteer.launch(...), before the try block
LaunchBrowser ==
    /\ pc = "launch"
    /\ \E launched \in BOOLEAN :
         IF launched
         THEN /\ browser' = [browser EXCEPT !.launched = @ + 1]
              /\ pc' = "openBoard"
              /\ log' = log \cup { <<"Extracting REAL issues from scrum board - MANUAL AUTH...">> }
              /\ UNCHANGED runError
         ELSE /\ runError' = << [t |-> "Error", message |-> "Failed to launch the browser process!"] >>
              /\ log' = log \cup { <<"Extracting REAL issues from scrum board - MANUAL AUTH...">>,
                                   <<"Error in getJiraIssues:", "Failed to launch the browser process!">>,
                                   <<"Failed to launch the browser process!">> }
              /\ pc' = "settled"
              /\ UNCHANGED browser
    /\ UNCHANGED <<issues, attempts, boardReady, currentUrl, elapsed>>
    /\ ScrapeIdle

\* browser.newPage() and page.goto(boardUrl, ...)
OpenBoard ==
    /\ pc = "openBoard"
    /\ \E opened \in BOOLEAN :
         IF opened
         THEN /\ pc' = "poll"
              /\ log' = log \cup { <<"Opening scrum board: ">> \o boardUrl,
                                   <<"Expected login email: ">> \o OrElse(env["JIRA_USERNAME"], <<>>) }
              /\ UNCHANGED runError
         ELSE ThrowInTry([t |-> "Error", message |-> "Navigation timeout of 60000 ms exceeded"])
    /\ UNCHANGED <<issues, browser, attempts, boardReady, currentUrl, elapsed>>
    /\ ScrapeIdle

\* the loop test that goes on checking after the board was detected
LoopContinuesWhenReady == attempts < maxAttempts

\* while (!boardReady && attempts < maxAttempts)
LoopContinues == ~boardReady /\ attempts < maxAttempts

\* one pass of the polling loop: wait 10 seconds, then check the page's address
CheckBoard ==
    /\ pc = "poll"
    /\ LoopContinues
    /\ attempts' = attempts + 1
    /\ elapsed' = elapsed + 10
    /\ \E check \in CheckOutcomes :
         IF check.kind = "throw"
         THEN /\ currentUrl' = Undefined
              /\ UNCHANGED boardReady
         ELSE /\ currentUrl' = check.value
              /\ boardReady' = (boardReady \/ OnScrumBoard(check.value))
    /\ UNCHANGED <<pc, issues, runError, log, browser>>
    /\ ScrapeIdle

\* the end of the loop: if (!boardReady) throw new Error('Timeout ...')
LeaveLoop ==
    /\ pc = "poll"
    /\ ~LoopContinues
    /\ IF ~boardReady
       THEN ThrowInTry(TimeoutError)
       ELSE /\ pc' = "extract"
            /\ log' = log \cup { <<"Scrum board detected! Proceeding with data extraction...">> }
            /\ UNCHANGED runError
    /\ UNCHANGED <<issues, browser, attempts, boardReady, currentUrl, elapsed>>
    /\ ScrapeIdle

\* the waits for the board, page.evaluate and the check of its result
ExtractIssues ==
    /\ pc = "extract"
    /\ elapsed' = elapsed + 15
    /\ \E evaluated \in EvaluateOutcomes :
         IF evaluated.kind = "throw"
         THEN /\ ThrowInTry(evaluated.error)
              /\ UNCHANGED issues
         ELSE IF Len(evaluated.value) = 0
         THEN /\ ThrowInTry(NoScrapedIssuesError)
              /\ UNCHANGED issues
         ELSE /\ issues' = evaluated.value
              /\ log' = log \cup { <<"Successfully extracted ", ToString(Len(evaluated.value)),
                                     " REAL issues from scrum board!">> }
              /\ pc' = "finally"
              /\ UNCHANGED runError
    /\ UNCHANGED <<browser, attempts, boardReady, currentUrl>>
    /\ ScrapeIdle

\* a finally block that leaves the browser open
CloseBrowserSkipped(b) == b

\* await browser.close()
CloseBrowser(b) == [b EXCEPT !.closed = @ + 1]

\* the finally block, then the rest of getJiraIssues: the error is logged and
\* thrown again, or the issues go to sendEmail
FinallyClose ==
    /\ pc = "finally"
    /\ elapsed' = elapsed + 10
    /\ browser' = CloseBrowser(browser)
    /\ IF runError # <<>>
       THEN /\ log' = log \cup { <<"Keeping browser open for 10 seconds to review...">>,
                                 <<"Error in getJiraIssues:", runError[1].message>>,
                                 <<runError[1].message>> }
            /\ pc' = "settled"
       ELSE /\ log' = log \cup { <<"Keeping browser open for 10 seconds to review...">>,
                                 <<"Found ", ToString(Len(issues)), " issues from scrum board">> }
            /\ pc' = "sendEmail"
    /\ UNCHANGED <<issues, runError, attempts, boardReady, currentUrl>>
    /\ ScrapeIdle

NextScrape ==
    \/ LaunchBrowser
    \/ OpenBoard
    \/ CheckBoard
    \/ LeaveLoop
    \/ ExtractIssues
    \/ FinallyClose
    \/ SendEmail
    \/ ProcessEnd

SpecScrape == InitScrape /\ [][NextScrape]_vars

----------------------------------------------------------------------------
(* Properties of the scraping reporter, checked under SpecScrape *)

\* the polling loop ended without a check that found the board
TimedOut == pc \in {"finally", "settled", "exited"} /\ attempts = maxAttempts /\ ~boardReady

ExtractionStarted ==
    \E line \in log : Len(line) >= 1 /\ line[1] = "Successfully extracted "

\* C26: the polling loop always terminates: it performs at most 60 checks, 10
\* seconds apart, stops at the first check whose address holds both the tracker
\* host and "RapidBoard", takes a check that throws as a non-match and goes on,
\* and after 60 checks without a match it fails with the timeout error, after
\* which no issue is extracted and no mail is sent.
C26_PollingLoopTerminates ==
    /\ attempts \in 0..maxAttempts
    /\ (pc = "poll" => elapsed = 10 * attempts)
    /\ (boardReady => attempts >= 1 /\ OnScrumBoard(currentUrl))
    /\ ((~boardReady /\ attempts >= 1) =>
          currentUrl = Undefined \/ ~OnScrumBoard(currentUrl))
    /\ ((pc = "poll" /\ ~boardReady /\ attempts < maxAttempts) => ENABLED CheckBoard)
    /\ ((pc = "poll" /\ (boardReady \/ attempts = maxAttempts)) =>
          ~ENABLED CheckBoard /\ ENABLED LeaveLoop)
    /\ (pc = "extract" => boardReady)
    /\ (TimedOut =>
          /\ runError = <<TimeoutError>>
          /\ issues = <<>>
          /\ mail = <<>>
          /\ ~ExtractionStarted)

C26_Witness ==
    /\ pc = "exited"
    /\ attempts = maxAttempts
    /\ ~boardReady
    /\ currentUrl = Undefined
    /\ runError = <<TimeoutError>>
    /\ elapsed = 610

\* C27: once the browser has been launched it is closed exactly once in every
\* outcome of the extraction (issues returned, authentication timeout, no issues
\* found, another error of the page), and it is closed before any mail is sent.
C27_BrowserClosedExactlyOnce ==
    /\ browser.launched \in {0, 1}
    /\ browser.closed <= browser.launched
    /\ (pc \in {"openBoard", "poll", "extract", "finally"} =>
          browser.launched = 1 /\ browser.closed = 0)
    /\ (pc \in {"sendEmail", "settled", "exited"} => browser.closed = browser.launched)
    /\ (pc = "sendEmail" => browser.closed = 1)
    /\ (mail # <<>> => browser.closed = 1)

C27_Witness ==
    /\ pc = "exited"
    /\ browser = [launched |-> 1, closed |-> 1]
    /\ runError = <<NoScrapedIssuesError>>
    /\ boardReady
    /\ mail = <<>>

====
